---- MODULE Spec2Model ----
(***************************************************************************)
(* Model of scripts/check_passwords.py: the credential scanner used as a   *)
(* pre-commit gate.  Text (paths, file content, lines, credentials) is a   *)
(* sequence of one-character strings, so that the path parsing, the line   *)
(* splitting, the regular-expression matching and the suppression rules    *)
(* are computed character by character as the Python code computes them.   *)
(***************************************************************************)
EXTENDS Integers, Sequences, FiniteSets, TLC

VARIABLES
    files_to_scan,  \* main: sys.argv[1:]
    fs,             \* the file system main runs against: path -> file
    pc,             \* main: position in the function body
    idx,            \* main: index of the for-loop over files_to_scan
    issues_found,   \* main: list of (filepath, issues)
    stdout,         \* main: what was printed to standard output
    stderr,         \* main and scan_file_for_passwords: prints to sys.stderr
    opened,         \* paths passed to open(), in call order
    exit_status,    \* main's return value (handed to sys.exit)
    filepath,       \* argument of a direct call of is_excluded_file
    excluded,       \* its return value
    content,        \* the file read by a direct call of scan_file_for_passwords
    issues          \* its return value

vars == <<files_to_scan, fs, pc, idx, issues_found, stdout, stderr, opened,
          exit_status, filepath, excluded, content, issues>>

mainVars == <<files_to_scan, fs, pc, idx, issues_found, stdout, stderr, opened,
              exit_status>>
filterVars == <<filepath, excluded>>
scanVars == <<content, issues>>

(***************************************************************************)
(* Characters and strings                                                  *)
(***************************************************************************)
UpperChars == <<"A", "B", "C", "D", "E", "F", "G", "H", "I", "J", "K", "L", "M", "N", "O", "P", "Q", "R", "S", "T", "U", "V", "W", "X", "Y", "Z">>
LowerChars == <<"a", "b", "c", "d", "e", "f", "g", "h", "i", "j", "k", "l", "m", "n", "o", "p", "q", "r", "s", "t", "u", "v", "w", "x", "y", "z">>
Digits == {"0", "1", "2", "3", "4", "5", "6", "7", "8", "9"}
Quotes == {"\"", "'"}
Whitespace == {" ", "\t", "\r"}

Range(s) == {s[i] : i \in 1..Len(s)}

\* re.IGNORECASE compares characters up to case.
LowerOf == [c \in Range(UpperChars) |->
               LowerChars[CHOOSE i \in 1..Len(UpperChars) : UpperChars[i] = c]]
Lower(c) == IF c \in DOMAIN LowerOf THEN LowerOf[c] ELSE c

AlnumChars == Range(UpperChars) \cup Range(LowerChars) \cup Digits

\* Character classes of the patterns:  \s ,  [^"'] ,  [^:] ,  [^@]  and
\* [a-zA-Z0-9] ; neg marks a negated class.
SpaceClass == [neg |-> FALSE, chars |-> Whitespace]
NotQuoteClass == [neg |-> TRUE, chars |-> Quotes]
NotColonClass == [neg |-> TRUE, chars |-> {":"}]
NotAtClass == [neg |-> TRUE, chars |-> {"@"}]
AlnumClass == [neg |-> FALSE, chars |-> AlnumChars]
InClass(c, cls) == (c \in cls.chars) # cls.neg
IsSpace(c) == InClass(c, SpaceClass)

\* First position q >= p that is past the end of s or whose character is not
\* in the class: where a greedy  [class]*  started at p stops.
RunEnd(s, p, cls) ==
    CHOOSE q \in p..(Len(s) + 1) :
        /\ \A k \in p..(q - 1) : InClass(s[k], cls)
        /\ q = Len(s) + 1 \/ ~InClass(s[q], cls)

\* The literal lit occurs in s at position p, up to case.
LitAt(lit, s, p) ==
    /\ p + Len(lit) - 1 <= Len(s)
    /\ \A i \in 1..Len(lit) : Lower(s[p + i - 1]) = Lower(lit[i])

\* str.__contains__: needle is a substring of hay.
Contains(hay, needle) ==
    \E p \in 1..(Len(hay) - Len(needle) + 1) :
        SubSeq(hay, p, p + Len(needle) - 1) = needle

\* str.split(sep) for a one-character separator.
RECURSIVE Split(_, _)
Split(s, sep) ==
    IF \E k \in 1..Len(s) : s[k] = sep
    THEN LET k == CHOOSE k \in 1..Len(s) :
                      s[k] = sep /\ \A j \in 1..(k - 1) : s[j] # sep
         IN  <<SubSeq(s, 1, k - 1)>> \o Split(SubSeq(s, k + 1, Len(s)), sep)
    ELSE <<s>>

\* str.strip(): leading and trailing whitespace removed.
Strip(s) ==
    IF \A k \in 1..Len(s) : IsSpace(s[k])
    THEN <<>>
    ELSE LET a == CHOOSE a \in 1..Len(s) :
                      ~IsSpace(s[a]) /\ \A j \in 1..(a - 1) : IsSpace(s[j])
             b == CHOOSE b \in 1..Len(s) :
                      ~IsSpace(s[b]) /\ \A j \in (b + 1)..Len(s) : IsSpace(s[j])
         IN  SubSeq(s, a, b)

StartsWith(s, c) == Len(s) >= 1 /\ s[1] = c
EndsWith(s, c) == Len(s) >= 1 /\ s[Len(s)] = c

(***************************************************************************)
(* PASSWORD_PATTERNS                                                       *)
(***************************************************************************)
MinAssignLen == 6
MinLongToken == 32
MinMediumToken == 20

\*  kw\s*[:=]\s*["']([^"']{6,})["']
AssignPattern(kw) ==
    [kind |-> "assign", lit |-> kw, words |-> <<>>, min |-> MinAssignLen]
\*  prefix[^:]+:([^@]+)@
UriPattern(prefix) ==
    [kind |-> "uri", lit |-> prefix, words |-> <<>>, min |-> 1]
\*  ["'](w1|w2|...)["']
WordPattern(ws) ==
    [kind |-> "word", lit |-> <<>>, words |-> ws, min |-> 1]
\*  ["']([a-zA-Z0-9]{n,})["']
TokenPattern(n) ==
    [kind |-> "token", lit |-> <<>>, words |-> <<>>, min |-> n]

PASSWORD_PATTERNS == <<
    AssignPattern(<<"p", "a", "s", "s", "w", "o", "r", "d">>),
    AssignPattern(<<"p", "a", "s", "s">>),
    AssignPattern(<<"p", "w", "d">>),
    AssignPattern(<<"s", "e", "c", "r", "e", "t">>),
    AssignPattern(<<"t", "o", "k", "e", "n">>),
    AssignPattern(<<"k", "e", "y">>),
    AssignPattern(<<"a", "u", "t", "h">>),
    UriPattern(<<"m", "o", "n", "g", "o", "d", "b", ":", "/", "/">>),
    UriPattern(<<"m", "o", "n", "g", "o", "d", "b", "+", "s", "r", "v", ":", "/", "/">>),
    WordPattern(<< <<"a", "d", "m", "i", "n">>, <<"r", "o", "o", "t">>, <<"u", "s", "e", "r">>, <<"t", "e", "s", "t">>, <<"d", "e", "m", "o">>, <<"p", "a", "s", "s", "w", "o", "r", "d">>,
                   <<"s", "e", "c", "r", "e", "t">>, <<"1", "2", "3", "4", "5", "6">>, <<"q", "w", "e", "r", "t", "y">>, <<"a", "d", "m", "i", "n", "1", "2", "3">> >>),
    TokenPattern(MinLongToken),
    TokenPattern(MinMediumToken),
    WordPattern(<< <<"p", "a", "s", "s", "w", "o", "r", "d">>, <<"1", "2", "3", "4", "5", "6">>, <<"q", "w", "e", "r", "t", "y">>, <<"a", "d", "m", "i", "n">>, <<"r", "o", "o", "t">>, <<"u", "s", "e", "r">>,
                   <<"t", "e", "s", "t">>, <<"d", "e", "m", "o">>, <<"g", "u", "e", "s", "t">>, <<"w", "e", "l", "c", "o", "m", "e">> >>)
>>

NoMatch == [found |-> FALSE, credential |-> <<>>, end |-> 0]
Match(cred, e) == [found |-> TRUE, credential |-> cred, end |-> e]

\* One attempt of the regex engine to match the pattern with the match
\* starting exactly at position p.  Every pattern has one capture group, so
\* match.groups() is non-empty and the credential is match.group(1); end is
\* the position after the match.
AssignAt(pat, s, p) ==
    IF ~LitAt(pat.lit, s, p) THEN NoMatch
    ELSE LET q1 == RunEnd(s, p + Len(pat.lit), SpaceClass)
         IN  IF q1 > Len(s) \/ s[q1] \notin {":", "="} THEN NoMatch
             ELSE LET q2 == RunEnd(s, q1 + 1, SpaceClass)
                  IN  IF q2 > Len(s) \/ s[q2] \notin Quotes THEN NoMatch
                      ELSE LET q3 == RunEnd(s, q2 + 1, NotQuoteClass)
                           IN  IF q3 > Len(s) \/ q3 - (q2 + 1) < pat.min
                               THEN NoMatch
                               ELSE Match(SubSeq(s, q2 + 1, q3 - 1), q3 + 1)

UriAt(pat, s, p) ==
    IF ~LitAt(pat.lit, s, p) THEN NoMatch
    ELSE LET u0 == p + Len(pat.lit)
             u1 == RunEnd(s, u0, NotColonClass)
         IN  IF u1 > Len(s) \/ u1 - u0 < 1 THEN NoMatch
             ELSE LET c1 == RunEnd(s, u1 + 1, NotAtClass)
                  IN  IF c1 > Len(s) \/ c1 - (u1 + 1) < 1 THEN NoMatch
                      ELSE Match(SubSeq(s, u1 + 1, c1 - 1), c1 + 1)

WordAt(pat, s, p) ==
    IF p > Len(s) \/ s[p] \notin Quotes THEN NoMatch
    ELSE LET ok(i) == /\ LitAt(pat.words[i], s, p + 1)
                      /\ p + 1 + Len(pat.words[i]) <= Len(s)
                      /\ s[p + 1 + Len(pat.words[i])] \in Quotes
         IN  IF \E i \in 1..Len(pat.words) : ok(i)
             THEN LET i == CHOOSE i \in 1..Len(pat.words) :
                               ok(i) /\ \A j \in 1..(i - 1) : ~ok(j)
                      n == Len(pat.words[i])
                  IN  Match(SubSeq(s, p + 1, p + n), p + n + 2)
             ELSE NoMatch

TokenAt(pat, s, p) ==
    IF p > Len(s) \/ s[p] \notin Quotes THEN NoMatch
    ELSE LET q == RunEnd(s, p + 1, AlnumClass)
         IN  IF q > Len(s) \/ s[q] \notin Quotes \/ q - (p + 1) < pat.min
             THEN NoMatch
             ELSE Match(SubSeq(s, p + 1, q - 1), q + 1)

MatchAt(pat, s, p) ==
    CASE pat.kind = "assign" -> AssignAt(pat, s, p)
      [] pat.kind = "uri"    -> UriAt(pat, s, p)
      [] pat.kind = "word"   -> WordAt(pat, s, p)
      [] pat.kind = "token"  -> TokenAt(pat, s, p)

\* re.finditer(pattern, line, re.IGNORECASE): the non-overlapping matches from
\* left to right; the search resumes where the previous match ended.
RECURSIVE FindIter(_, _, _)
FindIter(pat, s, p) ==
    IF p > Len(s) THEN <<>>
    ELSE LET m == MatchAt(pat, s, p)
         IN  IF m.found
             THEN <<m.credential>> \o FindIter(pat, s, m.end)
             ELSE FindIter(pat, s, p + 1)

(***************************************************************************)
(* scan_file_for_passwords                                                 *)
(***************************************************************************)
\* Variant of IsVariableName: the credential is looked for in the whole
\* line instead of the part before the first '='.
IsVariableNameAnywhere(line, credential) ==
    /\ "=" \in Range(line)
    /\ Contains(line, credential)

\* '=' in line and credential in line.split('=')[0]
IsVariableName(line, credential) ==
    /\ "=" \in Range(line)
    /\ Contains(Split(line, "=")[1], credential)

\* credential.startswith('{') and credential.endswith('}')
IsVariableReference(credential) ==
    StartsWith(credential, "{") /\ EndsWith(credential, "}")

\* Variant of IsCommentLine: the line is not stripped first.
IsCommentLineUnstripped(line) == StartsWith(line, "#")

\* line.strip().startswith('#')
IsCommentLine(line) == StartsWith(Strip(line), "#")

\* The three  continue  statements of the innermost loop.
Skipped(line, credential) ==
    \/ IsVariableName(line, credential)
    \/ IsVariableReference(credential)
    \/ IsCommentLine(line)

\* The tuple appended to issues.  The field pattern is not part of the
\* Python tuple: it records the index in PASSWORD_PATTERNS of the pattern
\* whose match produced the tuple.
Issue(line_num, line, credential, k) ==
    [line_num |-> line_num, line |-> Strip(line), credential |-> credential,
     pattern |-> k]

\* The body of  for match in matches  over the credentials creds[j..].
RECURSIVE MatchLoop(_, _, _, _, _)
MatchLoop(line_num, line, k, creds, j) ==
    IF j > Len(creds) THEN <<>>
    ELSE (IF Skipped(line, creds[j]) THEN <<>>
          ELSE <<Issue(line_num, line, creds[j], k)>>)
         \o MatchLoop(line_num, line, k, creds, j + 1)

\* Variant of PatternLoop: a credential already reported for the line by an
\* earlier pattern is not reported again.
RECURSIVE PatternLoopSeen(_, _, _, _)
PatternLoopSeen(line_num, line, k, seen) ==
    IF k > Len(PASSWORD_PATTERNS) THEN <<>>
    ELSE LET fresh(c) == c \notin seen
             creds == SelectSeq(FindIter(PASSWORD_PATTERNS[k], line, 1), fresh)
         IN  MatchLoop(line_num, line, k, creds, 1)
             \o PatternLoopSeen(line_num, line, k + 1, seen \cup Range(creds))

PatternLoopDedupe(line_num, line, k) == PatternLoopSeen(line_num, line, k, {})

\* for pattern in PASSWORD_PATTERNS, from the k-th pattern on.
RECURSIVE PatternLoop(_, _, _)
PatternLoop(line_num, line, k) ==
    IF k > Len(PASSWORD_PATTERNS) THEN <<>>
    ELSE MatchLoop(line_num, line, k,
                   FindIter(PASSWORD_PATTERNS[k], line, 1), 1)
         \o PatternLoop(line_num, line, k + 1)

\* for line_num, line in enumerate(lines, 1), from line n on.
RECURSIVE LineLoop(_, _)
LineLoop(lines, n) ==
    IF n > Len(lines) THEN <<>>
    ELSE PatternLoop(n, lines[n], 1) \o LineLoop(lines, n + 1)

\* Variant of ScanContent: the two outer loops are exchanged, every pattern
\* being run over all lines before the next pattern.
RECURSIVE LinesOfPattern(_, _, _)
LinesOfPattern(lines, k, n) ==
    IF n > Len(lines) THEN <<>>
    ELSE MatchLoop(n, lines[n], k, FindIter(PASSWORD_PATTERNS[k], lines[n], 1), 1)
         \o LinesOfPattern(lines, k, n + 1)

RECURSIVE PatternsOuter(_, _)
PatternsOuter(lines, k) ==
    IF k > Len(PASSWORD_PATTERNS) THEN <<>>
    ELSE LinesOfPattern(lines, k, 1) \o PatternsOuter(lines, k + 1)

ScanContentPatternMajor(data) == PatternsOuter(Split(data, "\n"), 1)

\* A file is [exists, readable, data]; open() or read() raises when it is
\* not readable, and the  except  clause leaves issues empty.
ScanContent(data) == LineLoop(Split(data, "\n"), 1)

scan_file_for_passwords(file) ==
    IF file.readable THEN ScanContent(file.data) ELSE <<>>

(***************************************************************************)
(* is_excluded_file                                                        *)
(***************************************************************************)
EXCLUDED_FILES == {
    <<".", "s", "e", "c", "r", "e", "t", "s", ".", "b", "a", "s", "e", "l", "i", "n", "e">>, <<".", "e", "n", "v", ".", "e", "x", "a", "m", "p", "l", "e">>, <<"p", "a", "s", "s", "w", "o", "r", "d", "s", "_", "a", "n", "d", "_", "c", "r", "e", "d", "e", "n", "t", "i", "a", "l", "s", ".", "t", "x", "t">>,
    <<"R", "E", "A", "D", "M", "E", ".", "m", "d">>, <<"n", "o", "d", "e", "_", "m", "o", "d", "u", "l", "e", "s">>, <<".", "g", "i", "t">>, <<"_", "_", "p", "y", "c", "a", "c", "h", "e", "_", "_">>, <<".", "p", "y", "t", "e", "s", "t", "_", "c", "a", "c", "h", "e">>,
    <<".", "v", "e", "n", "v">>, <<"v", "e", "n", "v">> }

EXCLUDED_DIRS == {
    <<"d", "o", "c", "s">>, <<"t", "e", "s", "t", "s">>, <<".", "g", "i", "t">>, <<"n", "o", "d", "e", "_", "m", "o", "d", "u", "l", "e", "s">>, <<"_", "_", "p", "y", "c", "a", "c", "h", "e", "_", "_">>, <<".", "p", "y", "t", "e", "s", "t", "_", "c", "a", "c", "h", "e">>,
    <<".", "v", "e", "n", "v">>, <<"v", "e", "n", "v">> }

\* Path(filepath).parts on a POSIX system: the components between slashes,
\* empty and "." components dropped, preceded by the root when the path is
\* absolute (the root is "//" for exactly two leading slashes).
PathRoot(fp) ==
    IF ~StartsWith(fp, "/") THEN <<>>
    ELSE IF Len(fp) >= 2 /\ fp[2] = "/" /\ ~(Len(fp) >= 3 /\ fp[3] = "/")
    THEN <<"/", "/">>
    ELSE <<"/">>

PathParts(fp) ==
    LET comps == Split(fp, "/")
        keep(c) == c # <<>> /\ c # <<".">>
    IN  (IF PathRoot(fp) = <<>> THEN <<>> ELSE <<PathRoot(fp)>>)
        \o SelectSeq(comps, keep)

\* Path.name: the final component, empty when only the root is left.
PathName(fp) ==
    LET parts == PathParts(fp)
    IN  IF parts = <<>> \/ parts[Len(parts)] = PathRoot(fp) THEN <<>>
        ELSE parts[Len(parts)]

\* Path.suffix: the name from its last dot on, unless that dot is the first
\* or the last character of the name.
PathSuffix(fp) ==
    LET name == PathName(fp)
        dots == {i \in 1..Len(name) : name[i] = "."}
    IN  IF dots = {} THEN <<>>
        ELSE LET i == CHOOSE i \in dots : \A j \in dots : j <= i
             IN  IF 1 < i /\ i < Len(name)
                 THEN SubSeq(name, i, Len(name)) ELSE <<>>

is_excluded_file(fp) ==
    IF \E i \in 1..Len(PathParts(fp)) : PathParts(fp)[i] \in EXCLUDED_DIRS
    THEN TRUE
    ELSE IF PathName(fp) \in EXCLUDED_FILES
    THEN TRUE
    ELSE IF PathSuffix(fp) = <<".", "m", "d">> /\ <<"d", "o", "c", "s">> \in Range(PathParts(fp))
    THEN TRUE
    ELSE FALSE

(***************************************************************************)
(* Inputs                                                                  *)
(***************************************************************************)
\* Longest argument list given to main.
MaxArgs == 3
\* Most components of a path given directly to is_excluded_file.
MaxParts == 3
\* Most lines of a file given directly to scan_file_for_passwords.
MaxLines == 2

RECURSIVE Join(_, _)
Join(seqs, sep) ==
    IF seqs = <<>> THEN <<>>
    ELSE IF Len(seqs) = 1 THEN seqs[1]
    ELSE seqs[1] \o <<sep>> \o Join(Tail(seqs), sep)

SeqsUpTo(S, n) == UNION {[1..k -> S] : k \in 0..n}

Missing == [exists |-> FALSE, readable |-> FALSE, data |-> <<>>]
Unreadable == [exists |-> TRUE, readable |-> FALSE, data |-> <<>>]
TextFile(data) == [exists |-> TRUE, readable |-> TRUE, data |-> data]

\* The paths main is called with, and the files that may be behind them.
ArgPaths == { <<"a", "p", "p", ".", "p", "y">>, <<"d", "b", ".", "p", "y">>, <<"d", "o", "c", "s", "/", "s", "e", "t", "u", "p", ".", "m", "d">> }

CleanData == <<"p", "a", "s", "s", "w", "o", "r", "d", " ", "=", " ", "o", "s", ".", "g", "e", "t", "e", "n", "v", "(", "'", "D", "B", "_", "P", "A", "S", "S", "W", "O", "R", "D", "'", ")">>
DirtyData == <<"#", " ", "s", "e", "t", "t", "i", "n", "g", "s", "\n", "u", "s", "e", "r", " ", "=", " ", "\"", "a", "d", "m", "i", "n", "\"", "\n">>

Files == {Missing, Unreadable, TextFile(CleanData), TextFile(DirtyData)}

\* The paths is_excluded_file is called with directly.
Components == { <<"d", "o", "c", "s">>, <<"t", "e", "s", "t", "s">>, <<"s", "r", "c">>, <<"v", "e", "n", "v">>, <<"R", "E", "A", "D", "M", "E", ".", "m", "d">>, <<"g", "u", "i", "d", "e", ".", "m", "d">>,
                <<"a", "p", "p", ".", "p", "y">>, <<"D", "o", "c", "s">>, <<".">>, <<>> }

FilterInputs ==
    {Join(cs, "/") : cs \in SeqsUpTo(Components, MaxParts) \ {<<>>}}
    \cup {<<"/">> \o Join(cs, "/") : cs \in SeqsUpTo(Components, 1)}

\* The lines of the files scan_file_for_passwords is called with directly.
ScanLines == {
    <<"p", "a", "s", "s", "w", "o", "r", "d", " ", "=", " ", "\"", "s", "u", "p", "e", "r", "s", "e", "c", "r", "e", "t", "1", "2", "3", "\"">>,
    <<"P", "A", "S", "S", "_", "V", "A", "R", " ", "=", " ", "\"", "P", "A", "S", "S", "_", "V", "A", "R", "\"">>,
    <<"p", "a", "s", "s", "w", "o", "r", "d", " ", "=", " ", "\"", "{", "A", "D", "M", "I", "N", "_", "P", "A", "S", "S", "}", "\"">>,
    <<"p", "a", "s", "s", "w", "o", "r", "d", " ", "=", " ", "o", "s", ".", "g", "e", "t", "e", "n", "v", "(", "'", "D", "B", "_", "P", "A", "S", "S", "W", "O", "R", "D", "'", ")">>,
    <<" ", " ", "#", " ", "p", "a", "s", "s", "w", "o", "r", "d", " ", "=", " ", "\"", "s", "u", "p", "e", "r", "s", "e", "c", "r", "e", "t", "1", "2", "3", "\"">>,
    <<"u", "s", "e", "r", " ", "=", " ", "\"", "u", "s", "e", "r", "\"", ",", " ", "\"", "r", "o", "o", "t", "\"">>,
    <<"a", " ", "=", " ", "\"", "q", "w", "e", "r", "t", "y", "\"", " ", "#", " ", "q", "w", "e", "r", "t", "y", " ", "=", " ", "b">>,
    <<"A", "P", "I", " ", "=", " ", "\"", "A", "1", "b", "2", "C", "3", "d", "4", "E", "5", "f", "6", "G", "7", "h", "8", "I", "9", "j", "0", "K", "1", "l", "2", "M", "3", "n", "4", "O", "5", "p", "6", "\"">>,
    <<"u", "r", "i", ":", " ", "\"", "m", "o", "n", "g", "o", "d", "b", ":", "/", "/", "a", "p", "p", ":", "h", "u", "n", "t", "e", "r", "2", "@", "d", "b", "0", "\"", " ", "k", "e", "y", ":", " ", "\"", "{", "a", "b", "c", "d", "}", "\"", " ", "'", "A", "d", "m", "i", "n", "'">>,
    <<"t", "o", "k", "e", "n", ":", " ", "\"", "x", "=", "1", "&", "y", "=", "2", "\"">>,
    <<>> }

ScanInputs ==
    {TextFile(Join(ls, "\n")) : ls \in SeqsUpTo(ScanLines, MaxLines) \ {<<>>}}
    \cup {Unreadable}

(***************************************************************************)
(* main                                                                    *)
(***************************************************************************)
Out(kind, path, issue) ==
    [kind |-> kind, path |-> path, line_num |-> issue.line_num,
     line |-> issue.line, credential |-> issue.credential]
NoIssue == [line_num |-> 0, line |-> <<>>, credential |-> <<>>]

\* for line_num, line, credential in issues: the two prints per issue.
RECURSIVE PrintIssues(_, _, _)
PrintIssues(path, iss, j) ==
    IF j > Len(iss) THEN <<>>
    ELSE <<Out("issue", path, iss[j])>> \o PrintIssues(path, iss, j + 1)

\* for filepath, issues in issues_found
RECURSIVE PrintFiles(_, _)
PrintFiles(found, n) ==
    IF n > Len(found) THEN <<>>
    ELSE <<Out("file", found[n].filepath, NoIssue)>>
         \o PrintIssues(found[n].filepath, found[n].issues, 1)
         \o PrintFiles(found, n + 1)

Report(found) ==
    <<Out("alert", <<>>, NoIssue)>> \o PrintFiles(found, 1)
    \o <<Out("blocked", <<>>, NoIssue)>>

NextFile ==
    /\ idx' = idx + 1
    /\ pc' = IF idx + 1 > Len(files_to_scan) THEN "report" ELSE "loop"

\* if not files_to_scan: print(...); return 1
MainNoFiles ==
    /\ pc = "start"
    /\ files_to_scan = <<>>
    /\ stderr' = Append(stderr, [kind |-> "no_files", path |-> <<>>])
    /\ exit_status' = 1
    /\ pc' = "done"
    /\ UNCHANGED <<files_to_scan, fs, idx, issues_found, stdout, opened>>

MainEnterLoop ==
    /\ pc = "start"
    /\ files_to_scan # <<>>
    /\ pc' = "loop"
    /\ UNCHANGED <<files_to_scan, fs, idx, issues_found, stdout, stderr,
                   opened, exit_status>>

\* Variant of FileNotFound: a missing file ends the run with status 1.
FileNotFoundFatal ==
    /\ pc = "loop"
    /\ ~fs[files_to_scan[idx]].exists
    /\ stderr' = Append(stderr, [kind |-> "not_found",
                                 path |-> files_to_scan[idx]])
    /\ exit_status' = 1
    /\ pc' = "done"
    /\ UNCHANGED <<files_to_scan, fs, idx, issues_found, stdout, opened>>

\* if not os.path.exists(filepath): print(...); continue
FileNotFound ==
    /\ pc = "loop"
    /\ ~fs[files_to_scan[idx]].exists
    /\ stderr' = Append(stderr, [kind |-> "not_found",
                                 path |-> files_to_scan[idx]])
    /\ NextFile
    /\ UNCHANGED <<files_to_scan, fs, issues_found, stdout, opened,
                   exit_status>>

\* Variant of FileExcluded: the exclusion is decided after the file was read.
FileExcludedAfterRead ==
    /\ pc = "loop"
    /\ fs[files_to_scan[idx]].exists
    /\ is_excluded_file(files_to_scan[idx])
    /\ opened' = Append(opened, files_to_scan[idx])
    /\ stderr' = IF fs[files_to_scan[idx]].readable THEN stderr
                 ELSE Append(stderr, [kind |-> "read_error",
                                      path |-> files_to_scan[idx]])
    /\ NextFile
    /\ UNCHANGED <<files_to_scan, fs, issues_found, stdout, exit_status>>

\* if is_excluded_file(filepath): continue
FileExcluded ==
    /\ pc = "loop"
    /\ fs[files_to_scan[idx]].exists
    /\ is_excluded_file(files_to_scan[idx])
    /\ NextFile
    /\ UNCHANGED <<files_to_scan, fs, issues_found, stdout, stderr, opened,
                   exit_status>>

\* Variant of FileScanned: the scanned file's issues are put in front of
\* issues_found instead of behind it.
FileScannedPrepend ==
    /\ pc = "loop"
    /\ fs[files_to_scan[idx]].exists
    /\ ~is_excluded_file(files_to_scan[idx])
    /\ LET fp == files_to_scan[idx]
           iss == scan_file_for_passwords(fs[fp])
       IN  /\ opened' = Append(opened, fp)
           /\ stderr' = IF fs[fp].readable THEN stderr
                        ELSE Append(stderr, [kind |-> "read_error",
                                             path |-> fp])
           /\ issues_found' = IF iss # <<>>
                              THEN <<[filepath |-> fp, issues |-> iss]>>
                                   \o issues_found
                              ELSE issues_found
    /\ NextFile
    /\ UNCHANGED <<files_to_scan, fs, stdout, exit_status>>

\* Variant of ScanOutcome: without the try/except in
\* scan_file_for_passwords the exception of an unreadable file leaves main.
ScanOutcomeUncaught(fp, iss) ==
    IF fs[fp].readable
    THEN /\ stderr' = stderr
         /\ issues_found' = IF iss # <<>>
                            THEN Append(issues_found,
                                        [filepath |-> fp, issues |-> iss])
                            ELSE issues_found
         /\ exit_status' = exit_status
         /\ NextFile
    ELSE /\ stderr' = Append(stderr, [kind |-> "traceback", path |-> fp])
         /\ issues_found' = issues_found
         /\ exit_status' = 1
         /\ idx' = idx
         /\ pc' = "done"

\* What a call of scan_file_for_passwords(fp) that returned iss leaves
\* behind: the diagnostic of its except clause, the append in main, and the
\* loop going on to the next file.
ScanOutcome(fp, iss) ==
    /\ stderr' = IF fs[fp].readable THEN stderr
                 ELSE Append(stderr, [kind |-> "read_error", path |-> fp])
    /\ issues_found' = IF iss # <<>>
                       THEN Append(issues_found,
                                   [filepath |-> fp, issues |-> iss])
                       ELSE issues_found
    /\ exit_status' = exit_status
    /\ NextFile

\* issues = scan_file_for_passwords(filepath)
\* if issues: issues_found.append((filepath, issues))
FileScanned ==
    /\ pc = "loop"
    /\ fs[files_to_scan[idx]].exists
    /\ ~is_excluded_file(files_to_scan[idx])
    /\ LET fp == files_to_scan[idx]
           iss == scan_file_for_passwords(fs[fp])
       IN  /\ opened' = Append(opened, fp)
           /\ ScanOutcome(fp, iss)
    /\ UNCHANGED <<files_to_scan, fs, stdout>>

\* if issues_found: ...report...; return 1
MainReportFindings ==
    /\ pc = "report"
    /\ issues_found # <<>>
    /\ stdout' = Report(issues_found)
    /\ exit_status' = 1
    /\ pc' = "done"
    /\ UNCHANGED <<files_to_scan, fs, idx, issues_found, stderr, opened>>

\* Variant of MainReportClean: a run in which every candidate was missing,
\* excluded or unreadable fails closed.
MainReportCleanFailClosed ==
    /\ pc = "report"
    /\ issues_found = <<>>
    /\ stdout' = <<Out("clean", <<>>, NoIssue)>>
    /\ exit_status' = IF opened = <<>> THEN 1 ELSE 0
    /\ pc' = "done"
    /\ UNCHANGED <<files_to_scan, fs, idx, issues_found, stderr, opened>>

\* else: print("No hardcoded passwords detected"); return 0
MainReportClean ==
    /\ pc = "report"
    /\ issues_found = <<>>
    /\ stdout' = <<Out("clean", <<>>, NoIssue)>>
    /\ exit_status' = 0
    /\ pc' = "done"
    /\ UNCHANGED <<files_to_scan, fs, idx, issues_found, stderr, opened>>

\* State of main before its first statement; -1 stands for "not returned".
MainIdle ==
    /\ pc = "start"
    /\ idx = 1
    /\ issues_found = <<>>
    /\ stdout = <<>>
    /\ stderr = <<>>
    /\ opened = <<>>
    /\ exit_status = -1

FilterIdle == filepath = <<>> /\ excluded = FALSE
ScanIdle == content = Missing /\ issues = <<>>

\* One run of main on an argument list and a file system.  Files that are
\* not named by an argument play no part and are left missing.
Init ==
    /\ files_to_scan \in SeqsUpTo(ArgPaths, MaxArgs)
    /\ fs \in [ArgPaths -> Files]
    /\ \A p \in ArgPaths \ Range(files_to_scan) : fs[p] = Missing
    /\ MainIdle
    /\ FilterIdle
    /\ ScanIdle

Next ==
    \/ (MainNoFiles /\ UNCHANGED <<filterVars, scanVars>>)
    \/ (MainEnterLoop /\ UNCHANGED <<filterVars, scanVars>>)
    \/ (FileNotFound /\ UNCHANGED <<filterVars, scanVars>>)
    \/ (FileExcluded /\ UNCHANGED <<filterVars, scanVars>>)
    \/ (FileScanned /\ UNCHANGED <<filterVars, scanVars>>)
    \/ (MainReportFindings /\ UNCHANGED <<filterVars, scanVars>>)
    \/ (MainReportClean /\ UNCHANGED <<filterVars, scanVars>>)

Spec == Init /\ [][Next]_vars

\* Direct calls of is_excluded_file.
CallIsExcluded ==
    /\ pc = "call"
    /\ excluded' = is_excluded_file(filepath)
    /\ pc' = "returned"
    /\ UNCHANGED <<files_to_scan, fs, idx, issues_found, stdout, stderr,
                   opened, exit_status, filepath, scanVars>>

InitFilter ==
    /\ filepath \in FilterInputs
    /\ excluded = FALSE
    /\ pc = "call"
    /\ files_to_scan = <<>>
    /\ fs = [p \in ArgPaths |-> Missing]
    /\ idx = 1 /\ issues_found = <<>> /\ stdout = <<>> /\ stderr = <<>>
    /\ opened = <<>> /\ exit_status = -1
    /\ ScanIdle

SpecFilter == InitFilter /\ [][CallIsExcluded]_vars

\* Direct calls of scan_file_for_passwords.
CallScan ==
    /\ pc = "call"
    /\ issues' = scan_file_for_passwords(content)
    /\ stderr' = IF content.readable THEN stderr
                 ELSE Append(stderr, [kind |-> "read_error", path |-> <<>>])
    /\ pc' = "returned"
    /\ UNCHANGED <<files_to_scan, fs, idx, issues_found, stdout, opened,
                   exit_status, content, filterVars>>

InitScan ==
    /\ content \in ScanInputs
    /\ issues = <<>>
    /\ pc = "call"
    /\ files_to_scan = <<>>
    /\ fs = [p \in ArgPaths |-> Missing]
    /\ idx = 1 /\ issues_found = <<>> /\ stdout = <<>> /\ stderr = <<>>
    /\ opened = <<>> /\ exit_status = -1
    /\ FilterIdle

SpecScan == InitScan /\ [][CallScan]_vars

(***************************************************************************)
(* Properties of main                                                      *)
(***************************************************************************)
Args == 1..Len(files_to_scan)
ArgFile(i) == fs[files_to_scan[i]]
Reaches(i) == ArgFile(i).exists /\ ~is_excluded_file(files_to_scan[i])
YieldsFinding(i) ==
    /\ Reaches(i)
    /\ ArgFile(i).readable
    /\ ScanContent(ArgFile(i).data) # <<>>
Diagnostics(kind, path) ==
    Cardinality({j \in 1..Len(stderr) :
                     stderr[j].kind = kind /\ stderr[j].path = path})
Occurrences(path) == Cardinality({i \in Args : files_to_scan[i] = path})

\* C1: when main has returned, its status is 1 exactly when the argument
\* list is empty or some existing, non-excluded, readable candidate yields a
\* Finding, and 0 otherwise; missing and unreadable candidates alone never
\* make it 1.
C1_ExitStatus ==
    pc = "done" =>
        exit_status = IF files_to_scan = <<>> \/ \E i \in Args : YieldsFinding(i)
                      THEN 1 ELSE 0

C1_Witness ==
    /\ pc = "done"
    /\ exit_status = 0
    /\ \E i \in Args : ~ArgFile(i).exists
    /\ \E i \in Args : Reaches(i) /\ ~ArgFile(i).readable

\* C2 as stated: a run on exactly one candidate, which does not exist,
\* prints the file-not-found diagnostic and returns 1.
C2_Original ==
    (pc = "done" /\ Len(files_to_scan) = 1 /\ ~ArgFile(1).exists) =>
        /\ Diagnostics("not_found", files_to_scan[1]) = 1
        /\ exit_status = 1

\* C2 amended: such a run prints the file-not-found diagnostic (and nothing
\* else on stderr), prints the clean-pass line, and returns 0.
C2_MissingOnlyCandidate ==
    (pc = "done" /\ Len(files_to_scan) = 1 /\ ~ArgFile(1).exists) =>
        /\ stderr = <<[kind |-> "not_found", path |-> files_to_scan[1]]>>
        /\ stdout = <<Out("clean", <<>>, NoIssue)>>
        /\ exit_status = 0

C2_Witness ==
    pc = "done" /\ Len(files_to_scan) = 1 /\ ~ArgFile(1).exists

\* The paths of the  File:  lines of the report, in print order.
ReportedFiles ==
    LET isFile(o) == o.kind = "file"
        lines == SelectSeq(stdout, isFile)
    IN  [k \in 1..Len(lines) |-> lines[k].path]

\* C3: the files of the report are in argument order: the report lists
\* exactly the arguments that are reported, in the order of the argument
\* list; and issues_found is built in that order while the loop runs.
C3_ReportOrder ==
    LET reported(p) == p \in Range(ReportedFiles)
        found(p) == \E k \in 1..Len(issues_found) : issues_found[k].filepath = p
        done == SubSeq(files_to_scan, 1, IF pc = "loop" THEN idx - 1
                                         ELSE Len(files_to_scan))
    IN  /\ ReportedFiles = SelectSeq(files_to_scan, reported)
        /\ [k \in 1..Len(issues_found) |-> issues_found[k].filepath]
               = SelectSeq(done, found)

C3_Witness ==
    /\ pc = "done"
    /\ Len(ReportedFiles) >= 2
    /\ ReportedFiles[1] # ReportedFiles[2]

\* What the candidates args contribute, one after the other, each on its own.
RECURSIVE Contribution(_)
Contribution(args) ==
    IF args = <<>> THEN <<>>
    ELSE LET fp == Head(args)
             f == fs[fp]
             iss == IF f.readable THEN ScanContent(f.data) ELSE <<>>
         IN  (IF f.exists /\ ~is_excluded_file(fp) /\ iss # <<>>
              THEN <<[filepath |-> fp, issues |-> iss]>> ELSE <<>>)
             \o Contribution(Tail(args))

\* C4: a candidate that reaches the scanner and cannot be read contributes
\* no Findings and gets one diagnostic per occurrence, and the run goes on:
\* every candidate that reaches the scanner is opened, and the Findings are
\* those of the argument list with the unreadable candidates left out.
C4_ReadFailureIsolated ==
    pc = "done" /\ files_to_scan # <<>> =>
        LET readable(p) == ~(fs[p].exists /\ ~fs[p].readable)
            scanned(p) == fs[p].exists /\ ~is_excluded_file(p)
        IN  /\ issues_found = Contribution(SelectSeq(files_to_scan, readable))
            /\ opened = SelectSeq(files_to_scan, scanned)
            /\ \A i \in Args :
                   Reaches(i) /\ ~ArgFile(i).readable =>
                       /\ Diagnostics("read_error", files_to_scan[i])
                              = Occurrences(files_to_scan[i])
                       /\ \A k \in 1..Len(issues_found) :
                              issues_found[k].filepath # files_to_scan[i]

C4_Witness ==
    /\ pc = "done"
    /\ \E i, j, k \in Args :
           /\ i < j /\ j < k
           /\ YieldsFinding(i)
           /\ Reaches(j) /\ ~ArgFile(j).readable
           /\ YieldsFinding(k)
    /\ Len(issues_found) = 2

\* C5: an existing candidate that the path filter excludes is never opened,
\* contributes no Findings whatever it holds, appears nowhere in the report
\* and gets no diagnostic.
C5_ExcludedNeverRead ==
    \A i \in Args :
        ArgFile(i).exists /\ is_excluded_file(files_to_scan[i]) =>
            /\ files_to_scan[i] \notin Range(opened)
            /\ \A k \in 1..Len(issues_found) :
                   issues_found[k].filepath # files_to_scan[i]
            /\ \A k \in 1..Len(stderr) : stderr[k].path # files_to_scan[i]
            /\ \A k \in 1..Len(stdout) : stdout[k].path # files_to_scan[i]

C5_Witness ==
    /\ pc = "done"
    /\ \E i \in Args :
           /\ ArgFile(i).exists /\ is_excluded_file(files_to_scan[i])
           /\ ArgFile(i).readable /\ ScanContent(ArgFile(i).data) # <<>>
    /\ issues_found # <<>>

(***************************************************************************)
(* Properties of is_excluded_file                                          *)
(***************************************************************************)
\* The directory segments of a path: its components but the last.
DirSegments(fp) ==
    LET parts == PathParts(fp)
    IN  IF parts = <<>> THEN {} ELSE {parts[i] : i \in 1..(Len(parts) - 1)}

\* C6: is_excluded_file(path) is true exactly when a directory segment of
\* the path is an excluded-directory name, or the base name is an
\* excluded-file name, or the file has the documentation extension and an
\* ancestor directory named docs.
C6_ExclusionRule ==
    pc = "returned" =>
        (excluded <=>
            \/ DirSegments(filepath) \cap EXCLUDED_DIRS # {}
            \/ PathName(filepath) \in EXCLUDED_FILES
            \/ PathSuffix(filepath) = <<".", "m", "d">> /\ <<"d", "o", "c", "s">> \in DirSegments(filepath))

(***************************************************************************)
(* Properties of scan_file_for_passwords                                   *)
(***************************************************************************)
Returned == pc = "returned" /\ content.readable
Lines == Split(content.data, "\n")
IssuesOfLine(n) ==
    LET onLine(x) == x.line_num = n
    IN  SelectSeq(issues, onLine)
\* Raw[n][k]: the credentials of pattern k's matches on line n, left to right.
Raw == [n \in 1..Len(Lines) |->
           [k \in 1..Len(PASSWORD_PATTERNS) |->
               FindIter(PASSWORD_PATTERNS[k], Lines[n], 1)]]
HasRawMatch(n) ==
    \E k \in 1..Len(PASSWORD_PATTERNS) :
        FindIter(PASSWORD_PATTERNS[k], Lines[n], 1) # <<>>

\* The first character of the line that is not whitespace is '#'.
CommentLine(line) ==
    \E h \in 1..Len(line) :
        line[h] = "#" /\ \A j \in 1..(h - 1) : line[j] \in Whitespace

\* C7: a line whose text begins, after leading whitespace, with '#' gets no
\* Finding, whatever matches it holds.
C7_CommentLinesSilent ==
    Returned => LET L == Lines IN
        \A n \in 1..Len(L) : CommentLine(L[n]) => IssuesOfLine(n) = <<>>

C7_Witness ==
    /\ Returned
    /\ issues # <<>>
    /\ \E n \in 1..Len(Lines) :
           /\ CommentLine(Lines[n]) /\ Lines[n][1] # "#"
           /\ HasRawMatch(n)

\* C8: the Findings of a file are in ascending order of their 1-based line
\* number, those of one line in the order of their patterns in
\* PASSWORD_PATTERNS; each carries the stripped text of its line.
C8_FindingOrder ==
    Returned => LET R == Raw
                    L == Lines IN
        /\ \A i, j \in 1..Len(issues) :
               i < j => \/ issues[i].line_num < issues[j].line_num
                        \/ /\ issues[i].line_num = issues[j].line_num
                           /\ issues[i].pattern <= issues[j].pattern
        /\ \A i \in 1..Len(issues) :
               /\ issues[i].line_num \in 1..Len(L)
               /\ issues[i].line = Strip(L[issues[i].line_num])
               /\ \E m \in 1..Len(R[issues[i].line_num][issues[i].pattern]) :
                      R[issues[i].line_num][issues[i].pattern][m]
                          = issues[i].credential

C8_Witness ==
    /\ Returned
    /\ issues # <<>>
    /\ \E i, j \in 1..Len(issues) :
           /\ issues[i].line_num = issues[j].line_num
           /\ issues[i].pattern < issues[j].pattern
    /\ \E i, j \in 1..Len(issues) :
           /\ issues[i].line_num < issues[j].line_num
           /\ issues[i].pattern > issues[j].pattern

\* The credential occurs in the part of the line before its first '='.
BeforeFirstEquals(line, cred) ==
    \E e \in 1..Len(line) :
        /\ line[e] = "="
        /\ \A j \in 1..(e - 1) : line[j] # "="
        /\ \E a \in 1..(e - Len(cred)) :
               \A m \in 1..Len(cred) : line[a + m - 1] = cred[m]
Braced(cred) == cred[1] = "{" /\ cred[Len(cred)] = "}"
Dropped(line, cred) == BeforeFirstEquals(line, cred) \/ Braced(cred)

\* C9: on a line that is not a comment, each match is dropped or kept on
\* its own: the Findings of pattern k on line n are the credentials of its
\* matches, in order, without those that occur before the first '=' of the
\* line or that start with '{' and end with '}'.
C9_PerMatchSuppression ==
    Returned => LET R == Raw
                    L == Lines IN
        \A n \in 1..Len(L) : \A k \in 1..Len(PASSWORD_PATTERNS) :
            ~CommentLine(L[n]) =>
                LET ofPattern(x) == x.pattern = k
                    got == SelectSeq(IssuesOfLine(n), ofPattern)
                    kept(c) == ~Dropped(L[n], c)
                IN  [m \in 1..Len(got) |-> got[m].credential]
                        = SelectSeq(R[n][k], kept)

C9_Witness ==
    Returned /\ LET R == Raw
                   L == Lines IN
    /\ \E n \in 1..Len(L) : \E k1, k2 \in 1..Len(PASSWORD_PATTERNS) :
        \E m1 \in 1..Len(R[n][k1]) : \E m2 \in 1..Len(R[n][k2]) :
           /\ ~CommentLine(L[n])
           /\ BeforeFirstEquals(L[n], R[n][k1][m1])
           /\ ~Dropped(L[n], R[n][k2][m2])
           /\ \E i \in 1..Len(issues) :
                  issues[i].line_num = n /\ issues[i].credential = R[n][k2][m2]
    /\ \E n \in 1..Len(L) : \E k1, k2 \in 1..Len(PASSWORD_PATTERNS) :
        \E m1 \in 1..Len(R[n][k1]) : \E m2 \in 1..Len(R[n][k2]) :
           /\ ~CommentLine(L[n])
           /\ Braced(R[n][k1][m1])
           /\ ~Dropped(L[n], R[n][k2][m2])

\* C10: nothing is merged: a credential text is reported for a line as many
\* times as patterns' matches on that line capture it and are not skipped,
\* so a literal that k patterns match is reported k times.
C10_NoDeduplication ==
    Returned => LET R == Raw
                    L == Lines
                    P == 1..Len(PASSWORD_PATTERNS)
                IN
        \A n \in 1..Len(L) :
            \A c \in UNION {Range(R[n][k]) : k \in P} :
                Cardinality({i \in 1..Len(issues) :
                                 issues[i].line_num = n /\ issues[i].credential = c})
                = IF Skipped(L[n], c) THEN 0
                  ELSE Cardinality(UNION {{<<k, m>> : m \in {m \in 1..Len(R[n][k]) :
                                                            R[n][k][m] = c}} : k \in P})

C10_Witness ==
    /\ Returned
    /\ \E i, j \in 1..Len(issues) :
           /\ issues[i].line_num = issues[j].line_num
           /\ issues[i].credential = issues[j].credential
           /\ Len(issues[i].credential) >= MinLongToken
           /\ issues[i].pattern = 11 /\ issues[j].pattern = 12
====
